---- MODULE Spec2Model ----
(***************************************************************************)
(* Model of loop_dune's BlockchainDataCollector (src/loop_dune/collector.py)*)
(* : the per-source persisted series (one CSV per source), the sampling of *)
(* a window of block heights, the merge into the persisted series, and the *)
(* orchestration of collect_historical_data / collect_all_data over the    *)
(* configured sources with a bounded worker pool; and of the warehouse     *)
(* publisher, DuneSync (src/loop_dune/sync.py) and DuneUploader            *)
(* (src/loop_dune/dune_uploader.py). Three smaller parts stand on their    *)
(* own: the merge of a batch into a series (MergeSpec), the rate gate of a *)
(* sampling task (GateSpec) and the script                                 *)
(* src/loop_dune/scripts/collect_and_upload.py (ScriptSpec).               *)
(***************************************************************************)
EXTENDS Integers, Sequences, FiniteSets, TLC

(***************************************************************************)
(* Configuration and environment.                                          *)
(***************************************************************************)

\* Keys of self.contracts other than "chain_id" and "balances", in dict order.
Contracts == <<"A", "B", "C">>

\* Normalised names of the entries of self.contracts["balances"], in order.
BalanceNames == <<"D">>

ContractSet == {Contracts[i] : i \in 1..Len(Contracts)}

BalanceSet == {BalanceNames[i] : i \in 1..Len(BalanceNames)}

Names == ContractSet \cup BalanceSet

\* functions_to_track of each contract; every function fills one column.
FunctionsToTrack == [n \in ContractSet |->
                       IF n = "A" THEN {"f1", "f2", "f3"} ELSE {"f1"}]

\* The height the explorer reports as the creation block of each source.
CreationBlock == [n \in Names |-> IF n = "C" THEN 150 ELSE 100]

\* self.blocks_period: int(os.getenv("BLOCKS_PERIOD", "100")).
BlocksPeriod == 100

\* The literal of "latest_block < end_block - 3500".
FreshnessThreshold == 3500

\* len(self.rpc_urls).
NumRpcUrls == 2

\* Number of top-level collection calls made on one collector.
MaxRuns == 1

\* Number of upstream reads (get_block, function call) and of CSV writes
\* that fail in all.
MaxFail == 1

\* Number of creation-height lookups that raise in all.
MaxLookupFail == 1

\* (end_block, blocks_period) pairs passed to collect_historical_data;
\* blocks_period 0 stands for an argument that is None (or 0).
RunInputs == {<<100, 50>>, <<210, 50>>, <<3700, 2000>>, <<3701, 2000>>}

\* Values of self.w3.eth.block_number seen by collect_all_data's tasks.
HeadBlocks == {210}

\* (name, start_block, end_block, blocks_period) of direct calls of
\* collect_contract_data; start_block -1 (NoStart) stands for None.
DirectInputs == {<<"A", 150, 250, 100>>, <<"C", -1, 150, 0>>}

\* The upstream reads that can fail: the heights whose get_block may raise
\* and the (height, function) calls that may raise.
FlakyBlocks == {150}

FlakyCalls == {<<150, "f1">>, <<150, "balanceOf">>}

\* Marks a to_csv that writes the whole frame.
NoWriteFailure == -1

\* The numbers of rows after which a to_csv may fail, and the sources whose
\* CSV it may fail on.
FlakyWrites == {1}

FlakyFiles == {"A", "D"}

(***************************************************************************)
(* Series and the pure parts of sampling and merging.                      *)
(***************************************************************************)

\* Variant of BlockRange: the stop height itself is left out, as with
\* range(start_block, end_block, blocks_period).
RECURSIVE BlockRange_ExclusiveEnd(_, _, _)
BlockRange_ExclusiveEnd(start, stop, step) ==
  IF start >= stop - 1 THEN <<>>
  ELSE <<start>> \o BlockRange_ExclusiveEnd(start + step, stop, step)

\* range(start, stop, step) for step >= 1, as the list of its elements.
RECURSIVE BlockRange(_, _, _)
BlockRange(start, stop, step) ==
  IF start >= stop THEN <<>>
  ELSE <<start>> \o BlockRange(start + step, stop, step)

\* blocks_period or self.blocks_period
EffectivePeriod(blocks_period) ==
  IF blocks_period = 0 THEN BlocksPeriod ELSE blocks_period

\* The header time of block h (opaque; identified with the height).
BlockTimestamp(h) == h

Heights(s) == {s[i].h : i \in 1..Len(s)}

\* existing_df["block_number"].max()
MaxHeight(s) == CHOOSE m \in Heights(s) : \A x \in Heights(s) : x <= m

\* Variant of ContractRow: a failed call discards the columns of the
\* functions called before and after it as well.
ContractRow_AllOrNothing(name, h, ff) ==
  [h |-> h, ts |-> BlockTimestamp(h),
   cols |-> IF \E f \in FunctionsToTrack[name] : <<h, f>> \in ff THEN {}
            ELSE FunctionsToTrack[name]]

\* row_data of collect_contract_data for height h: block_number, timestamp
\* and one column per tracked function whose call did not raise.
ContractRow(name, h, ff) ==
  [h |-> h, ts |-> BlockTimestamp(h),
   cols |-> {f \in FunctionsToTrack[name] : <<h, f>> \notin ff}]

\* the dict appended by collect_balance_data for height h.
BalanceRow(h) == [h |-> h, ts |-> BlockTimestamp(h), cols |-> {"balance"}]

\* Variant of DropDuplicates: keep="last".
RECURSIVE DropDuplicates_KeepLast(_)
DropDuplicates_KeepLast(s) ==
  IF s = <<>> THEN <<>>
  ELSE LET rest == DropDuplicates_KeepLast(Tail(s))
       IN IF Head(s).h \in Heights(rest) THEN rest
          ELSE <<Head(s)>> \o rest

\* DataFrame.drop_duplicates(subset=["block_number"]): keep="first".
RECURSIVE DropDuplicates(_)
DropDuplicates(s) ==
  IF s = <<>> THEN <<>>
  ELSE LET init == DropDuplicates(SubSeq(s, 1, Len(s) - 1))
           last == s[Len(s)]
       IN IF last.h \in Heights(init) THEN init ELSE Append(init, last)

\* Insert row r into the height-sorted sequence s, after rows of equal height.
RECURSIVE InsertSorted(_, _)
InsertSorted(s, r) ==
  IF s = <<>> THEN <<r>>
  ELSE IF s[Len(s)].h <= r.h THEN Append(s, r)
       ELSE Append(InsertSorted(SubSeq(s, 1, Len(s) - 1), r), s[Len(s)])

\* DataFrame.sort_values("block_number")
RECURSIVE SortValues(_)
SortValues(s) ==
  IF s = <<>> THEN <<>>
  ELSE InsertSorted(SortValues(SubSeq(s, 1, Len(s) - 1)), s[Len(s)])

\* Variant of MergeFrames: the concatenation is sorted without dropping the
\* duplicate heights.
MergeFrames_NoDedup(existing_df, df) == SortValues(existing_df \o df)

\* Variant of MergeFrames: the batch is appended to the file as it is.
MergeFrames_Append(existing_df, df) == existing_df \o df

\* pd.concat([existing_df, df]).drop_duplicates(...).sort_values(...)
MergeFrames(existing_df, df) == SortValues(DropDuplicates(existing_df \o df))

\* Position of the first height of hs whose get_block raises, 0 if none.
FirstFailure(hs, bf) ==
  IF \E i \in 1..Len(hs) : hs[i] \in bf
  THEN CHOOSE i \in 1..Len(hs) :
         hs[i] \in bf /\ \A j \in 1..(i - 1) : hs[j] \notin bf
  ELSE 0

\* df.to_csv(csv_path, index=False) (lines 349, 414, 721): the file is opened
\* for writing, which empties it, and the rows are written in order; a write
\* that fails after k rows raises and leaves those k rows in the file.
ToCsv(df, k) == IF k = NoWriteFailure THEN df ELSE SubSeq(df, 1, k)

\* The failures one sampling task may meet: bf are the heights whose
\* get_block raises, ff the (height, function) calls that raise, wf the
\* number of rows after which its to_csv fails.
Oracles(hs, funcs) ==
  LET hset == {hs[i] : i \in 1..Len(hs)}
  IN [bf : SUBSET (hset \cap FlakyBlocks),
      ff : SUBSET ((hset \X funcs) \cap FlakyCalls),
      wf : {NoWriteFailure} \cup FlakyWrites]

\* Whether to_csv can fail as o says when it writes the frame written to the
\* CSV of source name.
WriteOutcome(name, wf, written) ==
  wf = NoWriteFailure \/ (name \in FlakyFiles /\ wf < Len(written))

\* The number of failures of o.
FailuresOf(o) ==
  Cardinality(o.bf) + Cardinality(o.ff) + (IF o.wf = NoWriteFailure THEN 0 ELSE 1)

\* Body of collect_contract_data(name, start_block, end_block, period)
\* against the persisted series existing and the failures o: whether the
\* call raised, the heights whose loop body started, the rows appended to
\* data, whether get_block raised out of the loop (aborted), the frame
\* handed to to_csv (written), whether to_csv failed (wfail), the frame
\* returned and the series left on disk.
CollectContractDataResult(name, start_block, end_block, period, existing, o) ==
  LET hs      == BlockRange(start_block, end_block + 1, EffectivePeriod(period))
      k       == FirstFailure(hs, o.bf)
      data    == [i \in 1..Len(hs) |-> ContractRow(name, hs[i], o.ff)]
      df      == IF existing # <<>> THEN MergeFrames(existing, data) ELSE data
  IN IF k # 0
     THEN [raised |-> TRUE, aborted |-> TRUE, visited |-> SubSeq(hs, 1, k),
           data |-> SubSeq(data, 1, k - 1), written |-> <<>>,
           wfail |-> FALSE, df |-> <<>>, saved |-> existing]
     ELSE IF o.wf # NoWriteFailure
     THEN [raised |-> TRUE, aborted |-> FALSE, visited |-> hs, data |-> data,
           written |-> df, wfail |-> TRUE, df |-> <<>>,
           saved |-> ToCsv(df, o.wf)]
     ELSE [raised |-> FALSE, aborted |-> FALSE, visited |-> hs, data |-> data,
           written |-> df, wfail |-> FALSE, df |-> df, saved |-> ToCsv(df, o.wf)]

\* The rows collect_balance_data gathers: one per height at which neither
\* get_block nor balanceOf raised.
RECURSIVE BalanceData(_, _)
BalanceData(hs, o) ==
  IF hs = <<>> THEN <<>>
  ELSE LET init == BalanceData(SubSeq(hs, 1, Len(hs) - 1), o)
           h    == hs[Len(hs)]
       IN IF h \in o.bf \/ <<h, "balanceOf">> \in o.ff
          THEN init ELSE Append(init, BalanceRow(h))

\* Body of collect_balance_data(task); an exception of to_csv is caught by
\* the outer try (line 728) and the task returns None.
CollectBalanceDataResult(start_block, end_block, period, existing, o) ==
  LET hs   == BlockRange(start_block, end_block + 1, period)
      data == BalanceData(hs, o)
      df   == IF existing # <<>> THEN MergeFrames(existing, data) ELSE data
  IN IF data = <<>>
     THEN [visited |-> hs, data |-> data, written |-> <<>>, wfail |-> FALSE,
           df |-> <<>>, saved |-> existing, none |-> TRUE]
     ELSE IF o.wf # NoWriteFailure
     THEN [visited |-> hs, data |-> data, written |-> df, wfail |-> TRUE,
           df |-> <<>>, saved |-> ToCsv(df, o.wf), none |-> TRUE]
     ELSE [visited |-> hs, data |-> data, written |-> df, wfail |-> FALSE,
           df |-> df, saved |-> ToCsv(df, o.wf), none |-> FALSE]

(***************************************************************************)
(* Planning of the sampling window (the resume logic).                     *)
(***************************************************************************)

\* Variant of PlanContract: the resumed window starts at the last persisted
\* height instead of one past it.
PlanContract_ResumeAtLast(creation_block, existing, end_block) ==
  IF existing # <<>> /\ ~(MaxHeight(existing) < end_block - FreshnessThreshold)
  THEN [kind |-> "fresh", start |-> 0]
  ELSE LET start_block == IF existing # <<>> THEN MaxHeight(existing)
                          ELSE creation_block
       IN IF start_block >= end_block
          THEN [kind |-> "nonew", start |-> start_block]
          ELSE [kind |-> "window", start |-> start_block]

\* Variant of PlanContract: the freshness test is made on the resumed start
\* height instead of the last persisted height.
PlanContract_FreshByStart(creation_block, existing, end_block) ==
  IF existing # <<>>
     /\ ~(MaxHeight(existing) + 1 < end_block - FreshnessThreshold)
  THEN [kind |-> "fresh", start |-> 0]
  ELSE LET start_block == IF existing # <<>> THEN MaxHeight(existing) + 1
                          ELSE creation_block
       IN IF start_block >= end_block
          THEN [kind |-> "nonew", start |-> start_block]
          ELSE [kind |-> "window", start |-> start_block]

\* Lines 505-539: the window of a function-tracking source, given the
\* resolved creation height, the persisted series and the end height.
PlanContract(creation_block, existing, end_block) ==
  IF existing # <<>> /\ ~(MaxHeight(existing) < end_block - FreshnessThreshold)
  THEN [kind |-> "fresh", start |-> 0]
  ELSE LET start_block == IF existing # <<>> THEN MaxHeight(existing) + 1
                          ELSE creation_block
       IN IF start_block >= end_block
          THEN [kind |-> "nonew", start |-> start_block]
          ELSE [kind |-> "window", start |-> start_block]

\* Lines 585-623: the window of a token-balance probe.
PlanBalance(creation_block, existing, end_block) ==
  IF existing # <<>> /\ ~(MaxHeight(existing) < end_block)
  THEN [kind |-> "fresh", start |-> 0]
  ELSE [kind |-> "window",
        start |-> IF existing # <<>> THEN MaxHeight(existing) + 1
                  ELSE creation_block]

(***************************************************************************)
(* State.                                                                  *)
(***************************************************************************)

VARIABLES
  csv,              \* the persisted series of each source (<<>>: no file)
  pc,               \* where the calling thread of the current call stands
  mode,             \* the call in progress or last returned
  end_block,        \* argument end_block of collect_historical_data
  blocks_period,    \* argument blocks_period (0: None)
  creation_blocks,  \* dict creation_blocks of the current call
  idx,              \* position of the planning loop in contracts
  futures,          \* tasks submitted to the executor of the contract phase
  balance_futures,  \* tasks submitted to the executor of the balance phase
  zi,               \* position of the zip(contracts, futures) loop
  results,          \* dict results of the current call
  runs,             \* calls started so far
  failures,         \* upstream reads that have failed so far
  lookupFailures,   \* creation-height lookups that have raised so far
  plan,             \* what the planner decided for each source in this call
  csvAtStart,       \* the persisted series when the current call started
  lookups           \* calls of get_contract_creation_block per source in this call

\* State of DuneSync (sync.py), of DuneUploader (dune_uploader.py) and of
\* the warehouse they talk to.
VARIABLES
  sync_pc,          \* where the current call of the publisher stands
  sync_mode,        \* the publisher call in progress or last returned
  collector,        \* what self.collector of DuneSync is
  current_block,    \* current_block of sync_historical_data
  block_period,     \* self.block_period of DuneSync
  sync_i,           \* position of the loop over creation_blocks.items()
  chunk_start,      \* start_block (= end_block) of the current chunk
  visited,          \* the chunks for which the collector was called
  requests_log,     \* the requests.post calls made, in order
  tables,           \* the tables the warehouse holds
  rejects,          \* off-nominal answers met so far, of collector or warehouse
  status,           \* how the loop body of each contract ended
  call              \* argument and result of a direct publisher call

\* State of one merge of a batch into a persisted series (collector.py:338-349,
\* 712-721), taken on its own.
VARIABLES
  merge_pc,         \* "start", then "merged", then "remerged"
  merge_existing,   \* existing_df: the series the file held before the merge
  merge_batch,      \* df: the batch being merged
  merge_csv         \* the series the file holds now

\* State of the rate gate of one sampling task (collector.py:276-298, 646-676).
VARIABLES
  now,              \* what time.time() returns
  gate_pc,          \* where the loop body of the current height stands
  block_retrieval_period, \* self.block_retrieval_period
  last_call_time,   \* local last_call_time of the task
  current_time,     \* local current_time of the task
  gate_i,           \* position of the loop in block_range
  permitted,        \* the values last_call_time took, one per height
  slept,            \* for each height, whether time.sleep was called
  ticks             \* steps of the clock taken outside time.sleep

\* State of scripts/collect_and_upload.py.
VARIABLES
  script_pc,        \* where run_collection_and_upload stands
  asset_i,          \* position of the loop over ASSETS
  data_files,       \* the files that exist under data/
  collect_success,  \* what collect_data_for_asset returned, per asset
  upload_success,   \* what upload_data_for_asset returned, per asset
  uploads           \* the loop-upload commands run, in order, with their outcome

mergeVars == <<merge_pc, merge_existing, merge_batch, merge_csv>>

gateVars == <<now, gate_pc, block_retrieval_period, last_call_time,
              current_time, gate_i, permitted, slept, ticks>>

scriptVars == <<script_pc, asset_i, data_files, collect_success,
                upload_success, uploads>>

\* The variables neither the collector nor the publisher touches.
auxVars == <<mergeVars, gateVars, scriptVars>>

syncVars == <<sync_pc, sync_mode, collector, current_block, block_period,
              sync_i, chunk_start, visited, requests_log, tables, rejects,
              status, call>>

collectorVars == <<pc, mode, end_block, blocks_period, idx, futures,
                   balance_futures, zi, results, runs, failures, plan,
                   csvAtStart, lookups>>

vars == <<csv, pc, mode, end_block, blocks_period, creation_blocks, idx,
          futures, balance_futures, zi, results, runs, failures,
          lookupFailures, plan, csvAtStart, lookups, syncVars, auxVars>>

EmptyDict == [x \in {} |-> <<>>]

\* d[k] = v on a dict
Put(d, k, v) == [x \in (DOMAIN d) \cup {k} |-> IF x = k THEN v ELSE d[x]]

NoOracle == [bf |-> {}, ff |-> {}, wf |-> NoWriteFailure]

Unplanned == [n \in Names |-> [kind |-> "unplanned", start |-> 0]]

\* A task handed to executor.submit: its arguments, the state of its future
\* (st), what it returned (df, or none for None), and what its sampling loop
\* did: whether it was entered (sampled), the heights visited, the rows
\* appended to data, the failures met (o), whether get_block raised out of
\* the loop (aborted) and whether a to_csv of its frame failed (wfail).
Task(name, start_block, stop_block, period) ==
  [name |-> name, start |-> start_block, stop |-> stop_block,
   step |-> period, st |-> "pending", df |-> <<>>, none |-> FALSE,
   sampled |-> FALSE, visited |-> <<>>, data |-> <<>>, o |-> NoOracle,
   aborted |-> FALSE, wfail |-> FALSE, collected |-> FALSE]

\* Variant of Finished: the result loop takes a task as soon as a worker has
\* started it.
Finished_Started(t) == t.st # "pending"

\* future.result() returns or raises, and as_completed yields the future,
\* only once the task has ended.
Finished(t) == t.st \in {"done", "raised"}

NumRunning(fs) == Cardinality({i \in 1..Len(fs) : fs[i].st = "running"})

Min(a, b) == IF a <= b THEN a ELSE b

\* Variant of MaxWorkers: one worker per source, whatever the number of
\* endpoints.
MaxWorkers_PerSource(n) == n

\* max_workers = min(len(self.rpc_urls), n) of the three executors.
MaxWorkers(n) == Min(NumRpcUrls, n)

\* Variant of ResultHandled: an exception of future.result() leaves the loop
\* and the call.
ResultHandled_Propagates(t) == t.st # "raised"

\* The try/except around future.result() in the three result loops: the
\* loop goes on to the next future whatever the outcome of the task.
ResultHandled(t) == TRUE

\* The Web3 object through which the i-th task of the contract phase (or of
\* collect_all_data) issues its reads: collect_contract_data reads through
\* self.w3 (line 298) and through the contract get_contract builds on
\* self.w3 (line 214), the one object made in __init__ (line 58).
ContractHandle(i) == [owner |-> "collector", task |-> 0]

\* The Web3 object of the i-th balance task: collect_balance_data makes its
\* own (line 634).
BalanceHandle(i) == [owner |-> "task", task |-> i]

\* Marks an argument start_block that is None.
NoStart == -1

\* Lines 245-252: the start_block collect_contract_data works with; when the
\* argument is None the creation height is looked up again.
StartBlockOf(name, start_block) ==
  IF start_block = NoStart THEN CreationBlock[name] ELSE start_block

\* Variant of SubmittedStart: the task is submitted without a start_block.
SubmittedStart_None(start_block) == NoStart

\* Lines 541-548: the planned start_block is handed to the task as the
\* second positional argument of collect_contract_data.
SubmittedStart(start_block) == start_block

\* creation_blocks after the lookups of lines 452-482 when those of the
\* sources in raised raise.
ResolveCreationBlocks(raised) == [n \in Names \ raised |-> CreationBlock[n]]

\* creation_blocks.get(name) is None or 0
NoCreation(cb, name) == name \notin DOMAIN cb \/ cb[name] = 0

\* The series an earlier process left in the data directory: a call
\* collect_historical_data(inp[1], inp[2]) on an empty directory in which
\* every lookup and every read succeeded.
PersistedBy(inp) ==
  [n \in Names |->
     IF n \in ContractSet
     THEN LET w == PlanContract(CreationBlock[n], <<>>, inp[1])
          IN IF w.kind = "window"
             THEN CollectContractDataResult(n, w.start, inp[1], inp[2], <<>>, NoOracle).saved
             ELSE <<>>
     ELSE LET w == PlanBalance(CreationBlock[n], <<>>, inp[1])
          IN CollectBalanceDataResult(w.start, inp[1], EffectivePeriod(inp[2]), <<>>, NoOracle).saved]

\* What the data directory (os.makedirs(self.data_dir, exist_ok=True)) may
\* hold when the collector is constructed: nothing, or the series of an
\* earlier process.
InitialSeries == {[n \in Names |-> <<>>]} \cup {PersistedBy(inp) : inp \in RunInputs}

\* No publisher call has been made.
SyncIdle ==
  /\ sync_pc = "idle"
  /\ sync_mode = "none"
  /\ collector = "real"
  /\ current_block = 0
  /\ block_period = 0
  /\ sync_i = 1
  /\ chunk_start = 0
  /\ visited = <<>>
  /\ requests_log = <<>>
  /\ tables = {}
  /\ rejects = 0
  /\ status = [n \in Names |-> "none"]
  /\ call = [name |-> "", df |-> <<>>, ok |-> FALSE]

\* No merge, no gated loop and no script run is under way.
MergeIdle ==
  /\ merge_pc = "idle"
  /\ merge_existing = <<>>
  /\ merge_batch = <<>>
  /\ merge_csv = <<>>

GateIdle ==
  /\ now = 0
  /\ gate_pc = "idle"
  /\ block_retrieval_period = 0
  /\ last_call_time = 0
  /\ current_time = 0
  /\ gate_i = 1
  /\ permitted = <<>>
  /\ slept = <<>>
  /\ ticks = 0

ScriptIdle ==
  /\ script_pc = "idle"
  /\ asset_i = 1
  /\ data_files = {}
  /\ collect_success = <<>>
  /\ upload_success = <<>>
  /\ uploads = <<>>

AuxIdle == MergeIdle /\ GateIdle /\ ScriptIdle

\* No collector call has been made and no file exists.
CollectorIdle ==
  /\ csv = [n \in Names |-> <<>>]
  /\ pc = "idle"
  /\ mode = "none"
  /\ end_block = 0
  /\ blocks_period = 0
  /\ creation_blocks = EmptyDict
  /\ idx = 1
  /\ futures = <<>>
  /\ balance_futures = <<>>
  /\ zi = 1
  /\ results = EmptyDict
  /\ runs = 0
  /\ failures = 0
  /\ lookupFailures = 0
  /\ plan = Unplanned
  /\ csvAtStart = csv
  /\ lookups = [n \in Names |-> 0]

Init ==
  /\ AuxIdle
  /\ csv \in InitialSeries
  /\ pc = "idle"
  /\ mode = "none"
  /\ end_block = 0
  /\ blocks_period = 0
  /\ creation_blocks = EmptyDict
  /\ idx = 1
  /\ futures = <<>>
  /\ balance_futures = <<>>
  /\ zi = 1
  /\ results = EmptyDict
  /\ runs = 0
  /\ failures = 0
  /\ lookupFailures = 0
  /\ plan = Unplanned
  /\ csvAtStart = csv
  /\ lookups = [n \in Names |-> 0]
  /\ SyncIdle

(***************************************************************************)
(* collect_historical_data                                                 *)
(***************************************************************************)

\* Lines 440-498: the call starts, resolves the creation heights and opens
\* the executor of the contract phase.
StartHistorical ==
  /\ UNCHANGED <<syncVars, auxVars>>
  /\ pc = "idle"
  /\ runs < MaxRuns
  /\ \E inp \in RunInputs, raised \in SUBSET Names :
       /\ lookupFailures + Cardinality(raised) <= MaxLookupFail
       /\ lookupFailures' = lookupFailures + Cardinality(raised)
       /\ end_block' = inp[1]
       /\ blocks_period' = inp[2]
       /\ creation_blocks' = ResolveCreationBlocks(raised)
  /\ pc' = "plan"
  /\ mode' = "hist"
  /\ idx' = 1
  /\ zi' = 1
  /\ futures' = <<>>
  /\ balance_futures' = <<>>
  /\ results' = EmptyDict
  /\ runs' = runs + 1
  /\ plan' = Unplanned
  /\ csvAtStart' = csv
  /\ lookups' = [n \in Names |-> 1]
  /\ UNCHANGED <<csv, failures>>

\* Lines 500-549: one iteration of the planning loop over contracts.
PlanNextContract ==
  /\ UNCHANGED <<syncVars, auxVars>>
  /\ pc = "plan"
  /\ LET name == Contracts[idx]
         w    == PlanContract(creation_blocks[name], csv[name], end_block)
     IN IF NoCreation(creation_blocks, name)
        THEN /\ plan' = [plan EXCEPT ![name] = [kind |-> "nocreation", start |-> 0]]
             /\ UNCHANGED <<results, futures>>
        ELSE /\ plan' = [plan EXCEPT ![name] = w]
             /\ results' = IF w.kind = "fresh" \/ (w.kind = "nonew" /\ csv[name] # <<>>)
                           THEN Put(results, name, csv[name]) ELSE results
             /\ futures' = IF w.kind = "window"
                           THEN Append(futures, Task(name, SubmittedStart(w.start),
                                                     end_block, blocks_period))
                           ELSE futures
  /\ idx' = idx + 1
  /\ pc' = IF idx = Len(Contracts) THEN "collect" ELSE "plan"
  /\ UNCHANGED <<lookups, lookupFailures, csv, mode, end_block, blocks_period,
                 creation_blocks, balance_futures, zi, runs, failures,
                 csvAtStart>>

\* A worker of the contract-phase executor takes the oldest pending task;
\* max_workers = min(len(self.rpc_urls), len(contracts)) (lines 491, 381).
StartTask ==
  /\ UNCHANGED <<syncVars, auxVars>>
  /\ pc \in {"plan", "collect", "allcollect"}
  /\ \E i \in 1..Len(futures) :
       /\ futures[i].st = "pending"
       /\ \A j \in 1..(i - 1) : futures[j].st # "pending"
       /\ NumRunning(futures) <
            MaxWorkers(IF mode = "hist" THEN Len(Contracts)
                       ELSE Cardinality(DOMAIN creation_blocks))
       /\ futures' = [futures EXCEPT ![i].st = "running"]
  /\ UNCHANGED <<lookups, lookupFailures, csv, pc, mode, end_block, blocks_period,
                 creation_blocks, idx, balance_futures, zi, results, runs,
                 failures, plan, csvAtStart>>

\* A worker runs collect_contract_data (lines 219-352) for a task submitted
\* by collect_historical_data.
RunContractTask ==
  /\ UNCHANGED <<syncVars, auxVars>>
  /\ mode = "hist"
  /\ \E i \in 1..Len(futures) :
       /\ futures[i].st = "running"
       /\ LET t     == futures[i]
              start == StartBlockOf(t.name, t.start)
              hs    == BlockRange(start, t.stop + 1, EffectivePeriod(t.step))
          IN /\ lookups' = IF t.start = NoStart
                           THEN [lookups EXCEPT ![t.name] = @ + 1] ELSE lookups
             /\ \E lookupRaises \in IF t.start = NoStart THEN BOOLEAN ELSE {FALSE} :
                  IF lookupRaises
                  THEN /\ lookupFailures < MaxLookupFail
                       /\ lookupFailures' = lookupFailures + 1
                       /\ futures' = [futures EXCEPT ![i].st = "done"]
                       /\ UNCHANGED <<csv, failures>>
                  ELSE /\ UNCHANGED lookupFailures
                       /\ \E o \in Oracles(hs, FunctionsToTrack[t.name]) :
                            LET n == FailuresOf(o)
                                r == CollectContractDataResult(t.name, start, t.stop, t.step, csv[t.name], o)
                            IN /\ WriteOutcome(t.name, o.wf, r.written)
                               /\ failures + n <= MaxFail
                               /\ failures' = failures + n
                               /\ csv' = [csv EXCEPT ![t.name] = r.saved]
                               /\ futures' = [futures EXCEPT ![i] =
                                     [t EXCEPT !.st = IF r.raised THEN "raised" ELSE "done",
                                               !.df = r.df, !.sampled = TRUE,
                                               !.visited = r.visited, !.data = r.data,
                                               !.o = o, !.aborted = r.aborted,
                                               !.wfail = r.wfail]]
  /\ UNCHANGED <<pc, mode, end_block, blocks_period, creation_blocks, idx,
                 balance_futures, zi, results, runs, plan, csvAtStart>>

\* Lines 551-560: one iteration of "for contract_name, future in
\* zip(contracts, futures)"; future.result() waits for the task.
CollectResult ==
  /\ UNCHANGED <<syncVars, auxVars>>
  /\ pc = "collect"
  /\ zi <= Min(Len(Contracts), Len(futures))
  /\ Finished(futures[zi])
  /\ results' = IF futures[zi].st = "done" /\ futures[zi].df # <<>>
                THEN Put(results, Contracts[zi], futures[zi].df)
                ELSE results
  /\ futures' = [futures EXCEPT ![zi].collected = TRUE]
  /\ zi' = zi + 1
  /\ pc' = IF ResultHandled(futures[zi]) THEN "collect" ELSE "idle"
  /\ UNCHANGED <<lookups, lookupFailures, csv, mode, end_block, blocks_period,
                 creation_blocks, idx, balance_futures, runs, failures, plan,
                 csvAtStart>>

\* The balance task of one entry of self.contracts["balances"] (lines
\* 579-623), or <<>> when the entry is skipped.
BalanceTaskOf(name) ==
  LET w == PlanBalance(creation_blocks[name], csv[name], end_block)
  IN IF NoCreation(creation_blocks, name) \/ w.kind = "fresh" THEN <<>>
     ELSE <<Task(name, w.start, end_block, EffectivePeriod(blocks_period))>>

RECURSIVE BalanceTasks(_)
BalanceTasks(i) ==
  IF i = 0 THEN <<>> ELSE BalanceTasks(i - 1) \o BalanceTaskOf(BalanceNames[i])

RECURSIVE BalanceFresh(_, _)
BalanceFresh(i, res) ==
  IF i = 0 THEN res
  ELSE LET name == BalanceNames[i]
           prev == BalanceFresh(i - 1, res)
       IN IF ~NoCreation(creation_blocks, name)
             /\ PlanBalance(creation_blocks[name], csv[name], end_block).kind = "fresh"
          THEN Put(prev, name, csv[name]) ELSE prev

\* Lines 560-629 and 741-745: the contract-phase executor is left once every
\* task has finished, the balance tasks are prepared and submitted; without
\* tasks the call returns results (line 759).
PlanBalances ==
  /\ UNCHANGED <<syncVars, auxVars>>
  /\ pc = "collect"
  /\ zi > Min(Len(Contracts), Len(futures))
  /\ \A i \in 1..Len(futures) : Finished(futures[i])
  /\ balance_futures' = BalanceTasks(Len(BalanceNames))
  /\ results' = BalanceFresh(Len(BalanceNames), results)
  /\ plan' = [n \in Names |->
                IF n \in ContractSet THEN plan[n]
                ELSE IF NoCreation(creation_blocks, n)
                     THEN [kind |-> "nocreation", start |-> 0]
                     ELSE PlanBalance(creation_blocks[n], csv[n], end_block)]
  /\ pc' = IF balance_futures' = <<>> THEN "idle" ELSE "balcollect"
  /\ UNCHANGED <<lookups, lookupFailures, csv, mode, end_block, blocks_period,
                 creation_blocks, idx, futures, zi, runs, failures,
                 csvAtStart>>

\* A worker of the balance-phase executor takes the oldest pending task;
\* max_workers = min(len(self.rpc_urls), len(balance_tasks)) (line 626).
StartBalanceTask ==
  /\ UNCHANGED <<syncVars, auxVars>>
  /\ pc = "balcollect"
  /\ \E i \in 1..Len(balance_futures) :
       /\ balance_futures[i].st = "pending"
       /\ \A j \in 1..(i - 1) : balance_futures[j].st # "pending"
       /\ NumRunning(balance_futures) < MaxWorkers(Len(balance_futures))
       /\ balance_futures' = [balance_futures EXCEPT ![i].st = "running"]
  /\ UNCHANGED <<lookups, lookupFailures, csv, pc, mode, end_block, blocks_period,
                 creation_blocks, idx, futures, zi, results, runs, failures,
                 plan, csvAtStart>>

\* A worker runs collect_balance_data(task) (lines 631-732).
RunBalanceTask ==
  /\ UNCHANGED <<syncVars, auxVars>>
  /\ \E i \in 1..Len(balance_futures) :
       /\ balance_futures[i].st = "running"
       /\ LET t  == balance_futures[i]
              hs == BlockRange(t.start, t.stop + 1, t.step)
          IN \E o \in Oracles(hs, {"balanceOf"}) :
               LET n == FailuresOf(o)
                   r == CollectBalanceDataResult(t.start, t.stop, t.step, csv[t.name], o)
               IN /\ WriteOutcome(t.name, o.wf, r.written)
                  /\ failures + n <= MaxFail
                  /\ failures' = failures + n
                  /\ csv' = [csv EXCEPT ![t.name] = r.saved]
                  /\ balance_futures' = [balance_futures EXCEPT ![i] =
                        [t EXCEPT !.st = "done", !.df = r.df, !.none = r.none,
                                  !.sampled = TRUE, !.visited = r.visited,
                                  !.data = r.data, !.o = o,
                                  !.wfail = r.wfail]]
  /\ UNCHANGED <<lookups, lookupFailures, pc, mode, end_block, blocks_period,
                 creation_blocks, idx, futures, zi, results, runs, plan,
                 csvAtStart>>

\* Lines 747-759: one iteration of "for future in as_completed(futures)";
\* after the last one the call returns results.
CollectBalanceResult ==
  /\ UNCHANGED <<syncVars, auxVars>>
  /\ pc = "balcollect"
  /\ \E i \in 1..Len(balance_futures) :
       LET t == balance_futures[i]
       IN /\ Finished(t)
          /\ ~t.collected
          /\ results' = IF ~t.none THEN Put(results, t.name, t.df) ELSE results
          /\ balance_futures' = [balance_futures EXCEPT ![i].collected = TRUE]
          /\ pc' = IF ~ResultHandled(t)
                      \/ \A j \in 1..Len(balance_futures) :
                            j # i => balance_futures[j].collected
                   THEN "idle" ELSE "balcollect"
  /\ UNCHANGED <<lookups, lookupFailures, csv, mode, end_block, blocks_period,
                 creation_blocks, idx, futures, zi, runs, failures, plan,
                 csvAtStart>>

(***************************************************************************)
(* collect_all_data                                                        *)
(***************************************************************************)

\* One process_contract task per key of creation_blocks (lines 380, 391-396),
\* in the order check_contract_creation_blocks inserted them.
RECURSIVE ProcessTasks(_, _)
ProcessTasks(names, cb) ==
  IF names = <<>> THEN <<>>
  ELSE LET n == names[Len(names)]
           init == ProcessTasks(SubSeq(names, 1, Len(names) - 1), cb)
       IN IF n \in DOMAIN cb THEN Append(init, Task(n, cb[n], 0, 0)) ELSE init

\* Lines 371-396: the call checks the creation heights, returns when there
\* are none, and otherwise submits one process_contract task per source.
StartAll ==
  /\ UNCHANGED <<syncVars, auxVars>>
  /\ pc = "idle"
  /\ runs < MaxRuns
  /\ \E raised \in SUBSET Names :
       /\ lookupFailures + Cardinality(raised) <= MaxLookupFail
       /\ lookupFailures' = lookupFailures + Cardinality(raised)
       /\ creation_blocks' = ResolveCreationBlocks(raised)
  /\ futures' = ProcessTasks(Contracts \o BalanceNames, creation_blocks')
  /\ pc' = IF DOMAIN creation_blocks' = {} THEN "idle" ELSE "allcollect"
  /\ mode' = "all"
  /\ balance_futures' = <<>>
  /\ results' = EmptyDict
  /\ runs' = runs + 1
  /\ plan' = Unplanned
  /\ csvAtStart' = csv
  /\ lookups' = [n \in Names |-> 1]
  /\ UNCHANGED <<csv, end_block, blocks_period, idx, zi, failures>>

\* A worker runs process_contract (lines 354-369): collect_contract_data
\* from the creation height to the current head with the default period;
\* any exception (a name that is no key of self.contracts included) gives
\* None.
RunProcessTask ==
  /\ UNCHANGED <<syncVars, auxVars>>
  /\ mode = "all"
  /\ \E i \in 1..Len(futures) :
       /\ futures[i].st = "running"
       /\ LET t == futures[i]
          IN IF t.name \notin ContractSet
             THEN /\ futures' = [futures EXCEPT ![i].st = "done", ![i].none = TRUE]
                  /\ UNCHANGED <<csv, failures>>
             ELSE \E head \in HeadBlocks :
                   \E o \in Oracles(BlockRange(t.start, head + 1, BlocksPeriod),
                                    FunctionsToTrack[t.name]) :
                    LET n == FailuresOf(o)
                        r == CollectContractDataResult(t.name, t.start, head, 0, csv[t.name], o)
                    IN /\ WriteOutcome(t.name, o.wf, r.written)
                       /\ failures + n <= MaxFail
                       /\ failures' = failures + n
                       /\ csv' = [csv EXCEPT ![t.name] = r.saved]
                       /\ futures' = [futures EXCEPT ![i] =
                             [t EXCEPT !.st = "done", !.stop = head, !.df = r.df,
                                       !.none = r.raised, !.sampled = TRUE,
                                       !.visited = r.visited, !.data = r.data,
                                       !.o = o, !.aborted = r.aborted,
                                       !.wfail = r.wfail]]
  /\ UNCHANGED <<lookups, lookupFailures, pc, mode, end_block, blocks_period,
                 creation_blocks, idx, balance_futures, zi, results, runs,
                 plan, csvAtStart>>

\* Lines 405-425: one iteration of "for future in as_completed(...)": a
\* result that is not None is written to the source's CSV again (an
\* exception of that to_csv is caught at line 418); after the last one the
\* call returns.
CollectAllResult ==
  /\ UNCHANGED <<syncVars, auxVars>>
  /\ pc = "allcollect"
  /\ \E i \in 1..Len(futures), k \in {NoWriteFailure} \cup FlakyWrites :
       LET t == futures[i]
       IN /\ Finished(t)
          /\ ~t.collected
          /\ WriteOutcome(t.name, k, t.df)
          /\ k # NoWriteFailure => ~t.none /\ failures < MaxFail
          /\ failures' = failures + (IF k = NoWriteFailure THEN 0 ELSE 1)
          /\ csv' = IF ~t.none THEN [csv EXCEPT ![t.name] = ToCsv(t.df, k)]
                    ELSE csv
          /\ futures' = [futures EXCEPT ![i].collected = TRUE,
                                        ![i].wfail = (t.wfail \/ k # NoWriteFailure)]
          /\ pc' = IF ~ResultHandled(t)
                      \/ \A j \in 1..Len(futures) : j # i => futures[j].collected
                   THEN "idle" ELSE "allcollect"
  /\ UNCHANGED <<lookups, lookupFailures, mode, end_block, blocks_period,
                 creation_blocks, idx, balance_futures, zi, results, runs,
                 plan, csvAtStart>>

(***************************************************************************)
(* collect_contract_data called directly                                   *)
(***************************************************************************)

\* Lines 219-352 as one call by the calling thread; without start_block the
\* creation height is looked up, and the call returns an empty frame when
\* the lookup raises (lines 245-252).
CollectContractData ==
  /\ UNCHANGED <<syncVars, auxVars>>
  /\ pc = "idle"
  /\ runs < MaxRuns
  /\ \E inp \in DirectInputs, lookupRaises \in BOOLEAN :
       LET name  == inp[1]
           start == StartBlockOf(name, inp[2])
           hs    == BlockRange(start, inp[3] + 1, EffectivePeriod(inp[4]))
       IN /\ lookups' = [n \in Names |->
                           IF n = name /\ inp[2] = NoStart THEN 1 ELSE 0]
          /\ IF inp[2] = NoStart /\ lookupRaises
             THEN /\ lookupFailures < MaxLookupFail
                  /\ lookupFailures' = lookupFailures + 1
                  /\ futures' = <<[Task(name, inp[2], inp[3], inp[4]) EXCEPT !.st = "done"]>>
                  /\ UNCHANGED <<csv, failures>>
             ELSE /\ inp[2] = NoStart \/ ~lookupRaises
                  /\ UNCHANGED lookupFailures
                  /\ \E o \in Oracles(hs, FunctionsToTrack[name]) :
                       LET n == FailuresOf(o)
                           r == CollectContractDataResult(name, start, inp[3], inp[4], csv[name], o)
                       IN /\ WriteOutcome(name, o.wf, r.written)
                          /\ failures + n <= MaxFail
                          /\ failures' = failures + n
                          /\ csv' = [csv EXCEPT ![name] = r.saved]
                          /\ futures' = <<[Task(name, start, inp[3], inp[4]) EXCEPT
                                             !.st = IF r.raised THEN "raised" ELSE "done",
                                             !.df = r.df, !.sampled = TRUE,
                                             !.visited = r.visited, !.data = r.data,
                                             !.o = o, !.aborted = r.aborted,
                                             !.wfail = r.wfail]>>
  /\ mode' = "direct"
  /\ runs' = runs + 1
  /\ balance_futures' = <<>>
  /\ results' = EmptyDict
  /\ plan' = Unplanned
  /\ csvAtStart' = csv
  /\ UNCHANGED <<pc, end_block, blocks_period, creation_blocks, idx, zi>>

Next ==
  \/ StartHistorical
  \/ PlanNextContract
  \/ StartTask
  \/ RunContractTask
  \/ CollectResult
  \/ PlanBalances
  \/ StartBalanceTask
  \/ RunBalanceTask
  \/ CollectBalanceResult
  \/ StartAll
  \/ RunProcessTask
  \/ CollectAllResult
  \/ CollectContractData

Spec == Init /\ [][Next]_vars

(***************************************************************************)
(* DuneSync (sync.py) and DuneUploader (dune_uploader.py): the warehouse   *)
(* publisher.                                                              *)
(***************************************************************************)

\* (current_block, self.block_period) of a call of sync_historical_data.
SyncInputs == {<<1000, 100>>, <<210, 50>>, <<100, 50>>}

\* Number of off-nominal answers (of the collector or of the warehouse) met
\* by one publisher call.
MaxReject == 1

\* The chunk starts at which the collector or the warehouse may answer
\* off-nominally.
FlakyChunks == {100, 200}

\* What self.collector may be: the BlockchainDataCollector built by
\* __init__ (sync.py:86), or an object put in its place whose
\* collect_contract_data returns a frame ("stub": rows unless it deviates,
\* "stub_empty": always an empty frame), as tests/test_sync.py does.
CollectorKinds == {"real", "stub", "stub_empty"}

StubRow(h) == [h |-> h, ts |-> BlockTimestamp(h), cols |-> {"value"}]

\* The frame a stand-in collector returns for a chunk.
StubFrame == <<StubRow(1000), StubRow(1001)>>

\* The tables the warehouse may hold before the call.
InitialTables == {{}, {"A", "D"}}

\* The series the data directory holds before a publisher call: those left
\* by collect_historical_data(100, 50), a CSV for the balance probe and none
\* for the contracts.
PublishedSeries == PersistedBy(<<100, 50>>)

\* The sources whose creation-height lookup may raise in
\* check_contract_creation_blocks when the publisher calls it.
SyncFlakyLookups == {"B"}

\* Marks a response body without the key "rows_written".
NoKey == -1

\* requests.post raised (or response.json() did).
Raises == [kind |-> "raises", status |-> 0, success |-> FALSE, rows_written |-> NoKey]

\* A response with its status code and the fields of its JSON body.
Http(status_code, success, rows_written) ==
  [kind |-> "http", status |-> status_code, success |-> success,
   rows_written |-> rows_written]

\* The answer of table/create when nothing goes wrong: created, or already
\* there.
NominalCreate(name, tbls) == Http(200, name \notin tbls, NoKey)

\* The answer of table/insert when nothing goes wrong: every row written.
NominalInsert(df) == Http(200, FALSE, Len(df))

CreateResponses(name, tbls, flaky) ==
  {NominalCreate(name, tbls)} \cup
  (IF flaky THEN {Http(500, FALSE, NoKey), Raises} ELSE {})

InsertResponses(df, flaky) ==
  {NominalInsert(df)} \cup
  (IF flaky
   THEN {Http(200, FALSE, k) : k \in 0..(Len(df) - 1)} \cup
        {Http(200, FALSE, NoKey), Http(500, FALSE, NoKey), Raises}
   ELSE {})

UploadResponses ==
  {Http(200, TRUE, NoKey), Http(200, FALSE, NoKey), Http(500, FALSE, NoKey), Raises}

\* What collect_contract_data(contract_name=, contract=, creation_block=,
\* end_block=) gives for one chunk (sync.py:243-248): the method of
\* BlockchainDataCollector (collector.py:219-225) has no parameters named
\* contract and creation_block, so with the real collector the call raises
\* TypeError before anything is sampled; a stand-in returns a frame or raises.
CollectorOutcomes(kind, flaky) ==
  IF kind = "real" THEN {[raised |-> TRUE, df |-> <<>>]}
  ELSE IF kind = "stub_empty" THEN {[raised |-> FALSE, df |-> <<>>]}
  ELSE {[raised |-> FALSE, df |-> StubFrame]} \cup
       (IF flaky THEN {[raised |-> FALSE, df |-> <<>>], [raised |-> TRUE, df |-> <<>>]}
        ELSE {})

\* The value create_table returns for a response (sync.py:124-149).
CreateTable(resp) ==
  resp.kind = "http" /\ resp.status = 200 /\ resp.success

\* Variant of InsertData: the request is sent for an empty frame as well.
InsertData_NoEmptyCheck(df, resp) ==
  [sent |-> TRUE,
   ok |-> resp.kind = "http" /\ resp.status = 200 /\ resp.rows_written # NoKey]

\* insert_data(contract_name, df) (sync.py:151-207): whether a request is
\* sent and the value returned; a 200 whose body lacks "rows_written" raises
\* KeyError inside the try and gives False.
InsertData(df, resp) ==
  IF df = <<>> THEN [sent |-> FALSE, ok |-> FALSE]
  ELSE [sent |-> TRUE,
        ok |-> resp.kind = "http" /\ resp.status = 200 /\ resp.rows_written # NoKey]

\* An entry of the log of requests.post calls.
Request(op, name, chunk, df, resp, ok) ==
  [op |-> op, name |-> name, chunk |-> chunk, rows |-> df, sent |-> Len(df),
   resp |-> resp, ok |-> ok]

\* Variant of PublishChunk: a create_table that returns False ends the
\* contract's loop without an insert.
PublishChunk_StopOnCreateFailure(name, chunk, df, cr, ir) ==
  IF df = <<>> THEN [reqs |-> <<>>, stop |-> FALSE]
  ELSE LET ins == InsertData(df, ir)
       IN IF ~CreateTable(cr)
          THEN [reqs |-> <<Request("create", name, chunk, df, cr, FALSE)>>,
                stop |-> TRUE]
          ELSE [reqs |-> <<Request("create", name, chunk, df, cr, TRUE)>> \o
                         (IF ins.sent
                          THEN <<Request("insert", name, chunk, df, ir, ins.ok)>>
                          ELSE <<>>),
                stop |-> ~ins.ok]

\* Variant of PublishChunk: no test of df.empty before the publish.
PublishChunk_NoEmptyGuard(name, chunk, df, cr, ir) ==
  LET ins == InsertData(df, ir)
  IN [reqs |-> <<Request("create", name, chunk, df, cr, CreateTable(cr))>> \o
               (IF ins.sent
                THEN <<Request("insert", name, chunk, df, ir, ins.ok)>>
                ELSE <<>>),
      stop |-> ~ins.ok]

\* sync.py:250-266: what is done with the frame of one chunk: nothing when
\* it is empty, else create_table, whose result is only logged, then
\* insert_data, whose failure leaves the loop (break).
PublishChunk(name, chunk, df, cr, ir) ==
  IF df = <<>> THEN [reqs |-> <<>>, stop |-> FALSE]
  ELSE LET ins == InsertData(df, ir)
       IN [reqs |-> <<Request("create", name, chunk, df, cr, CreateTable(cr))>> \o
                    (IF ins.sent
                     THEN <<Request("insert", name, chunk, df, ir, ins.ok)>>
                     ELSE <<>>),
           stop |-> ~ins.ok]

\* Variant of ChunkPending: the chunk that starts at current_block is
\* visited as well.
ChunkPending_Inclusive(start, current) == start <= current

\* while start_block < current_block (sync.py:237)
ChunkPending(start, current) == start < current

\* Variant of AfterPass: an exception raised in the loop body leaves
\* sync_historical_data.
AfterPass_RaiseEndsRun(outcome) ==
  IF outcome = "advance" THEN "chunk"
  ELSE IF outcome = "raised" THEN "raised" ELSE "contract"

\* Where sync_historical_data goes after one pass of the while body: to the
\* next chunk, or, after a break (line 262) or an exception caught at line
\* 276, to the next contract.
AfterPass(outcome) == IF outcome = "advance" THEN "chunk" ELSE "contract"

\* Variant of UploadCsvResult: a failed upload removes the local file.
UploadCsvResult_RollBack(existing, resp) ==
  IF existing = <<>> THEN [sent |-> FALSE, ok |-> FALSE, saved |-> existing]
  ELSE LET ok == resp.kind = "http" /\ resp.status = 200 /\ resp.success
       IN [sent |-> TRUE, ok |-> ok, saved |-> IF ok THEN existing ELSE <<>>]

\* upload_csv(csv_path, table_name) (dune_uploader.py:33-103) on a file
\* holding the series existing (<<>>: no file): whether the request is sent,
\* the value returned and the file left on disk.
UploadCsvResult(existing, resp) ==
  IF existing = <<>> THEN [sent |-> FALSE, ok |-> FALSE, saved |-> existing]
  ELSE [sent |-> TRUE,
        ok |-> resp.kind = "http" /\ resp.status = 200 /\ resp.success,
        saved |-> existing]

\* 1 when the answer differs from the nominal one, else 0.
Off(answer, nominal) == IF answer = nominal THEN 0 ELSE 1

Resolved(n) == n \in DOMAIN creation_blocks

\* creation_blocks.items(), in insertion order (collector.py:152-195).
SyncItems == SelectSeq(Contracts \o BalanceNames, Resolved)

SyncInit ==
  /\ AuxIdle
  /\ csv = PublishedSeries
  /\ pc = "idle"
  /\ mode = "none"
  /\ end_block = 0
  /\ blocks_period = 0
  /\ creation_blocks = EmptyDict
  /\ idx = 1
  /\ futures = <<>>
  /\ balance_futures = <<>>
  /\ zi = 1
  /\ results = EmptyDict
  /\ runs = 0
  /\ failures = 0
  /\ lookupFailures = 0
  /\ plan = Unplanned
  /\ csvAtStart = csv
  /\ lookups = [n \in Names |-> 0]
  /\ sync_pc = "idle"
  /\ sync_mode = "none"
  /\ collector \in CollectorKinds
  /\ current_block = 0
  /\ block_period = 0
  /\ sync_i = 1
  /\ chunk_start = 0
  /\ visited = <<>>
  /\ requests_log = <<>>
  /\ tables \in InitialTables
  /\ rejects = 0
  /\ status = [n \in Names |-> "none"]
  /\ call = [name |-> "", df |-> <<>>, ok |-> FALSE]

\* sync.py:209-223: the call reads the head height (outside any try, so a
\* failure of the read leaves the call by an exception), resolves the
\* creation heights and returns when there are none.
StartSyncHistorical ==
  /\ sync_pc = "idle"
  /\ sync_mode' = "historical"
  /\ \E inp \in SyncInputs, raised \in SUBSET SyncFlakyLookups,
        headRaises \in BOOLEAN :
       IF headRaises
       THEN /\ rejects < MaxReject
            /\ rejects' = rejects + 1
            /\ sync_pc' = "raised"
            /\ UNCHANGED <<current_block, block_period, creation_blocks,
                           lookupFailures>>
       ELSE /\ lookupFailures + Cardinality(raised) <= MaxLookupFail
            /\ lookupFailures' = lookupFailures + Cardinality(raised)
            /\ creation_blocks' = ResolveCreationBlocks(raised)
            /\ current_block' = inp[1]
            /\ block_period' = inp[2]
            /\ sync_pc' = IF DOMAIN creation_blocks' = {} THEN "done"
                          ELSE "contract"
            /\ UNCHANGED rejects
  /\ UNCHANGED <<auxVars, csv, collectorVars, collector, sync_i, chunk_start, visited,
                 requests_log, tables, status, call>>

\* sync.py:226-235 and 282: the for loop takes the next item of
\* creation_blocks, or the call returns after the last one.
SyncNextContract ==
  /\ sync_pc = "contract"
  /\ IF sync_i > Len(SyncItems)
     THEN /\ sync_pc' = "done"
          /\ UNCHANGED chunk_start
     ELSE /\ sync_pc' = "chunk"
          /\ chunk_start' = creation_blocks[SyncItems[sync_i]]
  /\ UNCHANGED <<auxVars, csv, collectorVars, creation_blocks, lookupFailures,
                 sync_mode, collector, current_block, block_period, sync_i,
                 visited, requests_log, tables, rejects, status, call>>

\* sync.py:237 and 272-274: the while test fails and the contract is
\* completed.
SyncContractCompleted ==
  /\ sync_pc = "chunk"
  /\ ~ChunkPending(chunk_start, current_block)
  /\ status' = [status EXCEPT ![SyncItems[sync_i]] = "completed"]
  /\ sync_i' = sync_i + 1
  /\ sync_pc' = "contract"
  /\ UNCHANGED <<auxVars, csv, collectorVars, creation_blocks, lookupFailures,
                 sync_mode, collector, current_block, block_period,
                 chunk_start, visited, requests_log, tables, rejects, call>>

\* sync.py:237-270 and 276-280: one pass of the while body: the collector is
\* called for the chunk, its frame is published, and the chunk start
\* advances by block_period unless the insert failed or a step raised.
SyncChunk ==
  /\ sync_pc = "chunk"
  /\ ChunkPending(chunk_start, current_block)
  /\ LET name  == SyncItems[sync_i]
         flaky == chunk_start \in FlakyChunks
     IN \E c \in CollectorOutcomes(collector, flaky),
           cr \in CreateResponses(name, tables, flaky),
           ir \in InsertResponses(StubFrame, flaky) :
          LET blank   == c.raised \/ c.df = <<>>
              p       == PublishChunk(name, chunk_start, c.df, cr, ir)
              outcome == IF c.raised THEN "raised"
                         ELSE IF p.stop THEN "break" ELSE "advance"
              n       == (IF collector = "stub" /\ blank THEN 1 ELSE 0)
                         + Off(cr, NominalCreate(name, tables))
                         + Off(ir, NominalInsert(StubFrame))
          IN /\ blank => cr = NominalCreate(name, tables)
                         /\ ir = NominalInsert(StubFrame)
             /\ rejects + n <= MaxReject
             /\ rejects' = rejects + n
             /\ visited' = Append(visited,
                  [name |-> name, start |-> chunk_start,
                   outcome |-> IF c.raised THEN "raised"
                               ELSE IF c.df = <<>> THEN "empty" ELSE "rows"])
             /\ requests_log' = IF c.raised THEN requests_log
                                ELSE requests_log \o p.reqs
             /\ tables' = IF ~blank /\ CreateTable(cr) THEN tables \cup {name}
                          ELSE tables
             /\ sync_pc' = AfterPass(outcome)
             /\ chunk_start' = IF outcome = "advance"
                               THEN chunk_start + block_period ELSE chunk_start
             /\ sync_i' = IF outcome = "advance" THEN sync_i ELSE sync_i + 1
             /\ status' = IF outcome = "advance" THEN status
                          ELSE [status EXCEPT ![name] =
                                  IF outcome = "break" THEN "stopped" ELSE "raised"]
  /\ UNCHANGED <<auxVars, csv, collectorVars, creation_blocks, lookupFailures,
                 sync_mode, collector, current_block, block_period, call>>

\* A call insert_data(contract_name, df) made directly (sync.py:151-207), as
\* sync_daily_data (line 304) and the tests make it.
InsertDataCall ==
  /\ sync_pc = "idle"
  /\ sync_mode' = "insert"
  /\ sync_pc' = "done"
  /\ \E name \in ContractSet, df \in {<<>>, StubFrame} :
       \E ir \in InsertResponses(df, TRUE) :
          LET r == InsertData(df, ir)
          IN /\ rejects + Off(ir, NominalInsert(df)) <= MaxReject
             /\ rejects' = rejects + Off(ir, NominalInsert(df))
             /\ requests_log' =
                  IF r.sent THEN <<Request("insert", name, 0, df, ir, r.ok)>>
                  ELSE <<>>
             /\ call' = [name |-> name, df |-> df, ok |-> r.ok]
  /\ UNCHANGED <<auxVars, csv, collectorVars, creation_blocks, lookupFailures,
                 collector, current_block, block_period, sync_i, chunk_start,
                 visited, tables, status>>

\* A call upload_csv(csv_path, table_name) of DuneUploader
\* (dune_uploader.py:33-103) on the CSV of one source.
UploadCsvCall ==
  /\ sync_pc = "idle"
  /\ sync_mode' = "upload"
  /\ sync_pc' = "done"
  /\ \E name \in Names, ur \in UploadResponses :
       LET r == UploadCsvResult(csv[name], ur)
       IN /\ csv' = [csv EXCEPT ![name] = r.saved]
          /\ requests_log' =
               IF r.sent THEN <<Request("upload", name, 0, csv[name], ur, r.ok)>>
               ELSE <<>>
          /\ call' = [name |-> name, df |-> csv[name], ok |-> r.ok]
  /\ UNCHANGED <<auxVars, collectorVars, creation_blocks, lookupFailures, collector,
                 current_block, block_period, sync_i, chunk_start, visited,
                 tables, rejects, status>>

SyncNext ==
  \/ StartSyncHistorical
  \/ SyncNextContract
  \/ SyncContractCompleted
  \/ SyncChunk
  \/ InsertDataCall
  \/ UploadCsvCall

\* sync_historical_data is one sequential thread: a step that can be taken
\* is taken.
SyncSpec == SyncInit /\ [][SyncNext]_vars /\ WF_vars(SyncNext)

(***************************************************************************)
(* Properties.                                                             *)
(***************************************************************************)

ContractTasks == {futures[i] : i \in 1..Len(futures)}

BalanceTaskSet == {balance_futures[i] : i \in 1..Len(balance_futures)}

AllTasks == ContractTasks \cup BalanceTaskSet

\* collect_historical_data has returned results.
HistReturned == pc = "idle" /\ mode = "hist"

RowAt(s, h) == CHOOSE r \in {s[i] : i \in 1..Len(s)} : r.h = h

RowsAt(s, h) == {i \in 1..Len(s) : s[i].h = h}

StrictlyIncreasing(s) == \A i \in 1..(Len(s) - 1) : s[i].h < s[i + 1].h

Ascending(hs) == \A i \in 1..(Len(hs) - 1) : hs[i] < hs[i + 1]

\* The period a task's loop steps by.
StepOf(t) == EffectivePeriod(t.step)

\* The heights start, start+stride, ... that are <= end, as a set.
WindowHeights(start, end, stride) ==
  {h \in start..end : (h - start) % stride = 0}

\* C1: when collect_historical_data has returned and the creation-height
\* lookup of some source raised, every task that sampled successfully has its
\* series in the returned mapping under its own name, and no series is
\* returned under the name of a source whose lookup raised.
C1_OthersUnderOwnName ==
  (HistReturned /\ DOMAIN creation_blocks # Names) =>
     /\ \A t \in AllTasks :
          (t.st = "done" /\ ~t.none) =>
             t.name \in DOMAIN results /\ results[t.name] = t.df
     /\ \A b \in Names \ DOMAIN creation_blocks : b \notin DOMAIN results

Clash(t) ==
  {i \in 1..Len(t.data) :
     /\ t.data[i].h \in Heights(csvAtStart[t.name])
     /\ RowAt(csvAtStart[t.name], t.data[i].h) # t.data[i]}

Merged(t) == Finished(t) /\ t.sampled /\ ~t.aborted /\ ~t.wfail

\* C3 as stated: after a merge, a height present in both the persisted and
\* the incoming rows with different payloads has exactly one row, the
\* incoming one.
C3_IncomingWins ==
  \A t \in AllTasks :
    Merged(t) =>
      \A i \in Clash(t) :
        /\ Cardinality(RowsAt(csv[t.name], t.data[i].h)) = 1
        /\ RowAt(csv[t.name], t.data[i].h) = t.data[i]

\* C3 amended: after a merge, a height present in both the persisted and the
\* incoming rows with different payloads has exactly one row, the one that
\* was already persisted.
C3_ExistingWins ==
  \A t \in AllTasks :
    Merged(t) =>
      \A i \in Clash(t) :
        /\ Cardinality(RowsAt(csv[t.name], t.data[i].h)) = 1
        /\ RowAt(csv[t.name], t.data[i].h) = RowAt(csvAtStart[t.name], t.data[i].h)
        /\ RowAt(t.df, t.data[i].h) = RowAt(csvAtStart[t.name], t.data[i].h)

\* A merge in which an incoming row met a persisted row of the same height
\* and another payload.
C3_Witness == \E t \in AllTasks : Merged(t) /\ Clash(t) # {}

\* C4: every source's persisted series has strictly increasing heights.
C4_StrictlyIncreasing == \A n \in Names : StrictlyIncreasing(csv[n])

\* A persisted series that results from merging a batch overlapping the
\* rows already persisted.
C4_Witness ==
  \E t \in AllTasks :
    /\ Merged(t)
    /\ Heights(t.data) \cap Heights(csvAtStart[t.name]) # {}
    /\ Heights(t.data) \ Heights(csvAtStart[t.name]) # {}
    /\ Len(csv[t.name]) >= 3

\* C5: a task whose loop ran to the end visited exactly the heights start,
\* start+stride, ... <= end in ascending order; for (100, 210, 50) these are
\* 100, 150, 200.
C5_WindowHeights ==
  \A t \in AllTasks :
    (Finished(t) /\ t.sampled /\ ~t.aborted) =>
       /\ Ascending(t.visited)
       /\ {t.visited[i] : i \in 1..Len(t.visited)} =
            WindowHeights(t.start, t.stop, StepOf(t))
       /\ (t.start = 100 /\ t.stop = 210 /\ StepOf(t) = 50) =>
             t.visited = <<100, 150, 200>>

\* A finished task over the window (100, 210, 50).
C5_Witness ==
  \E t \in AllTasks :
    /\ Finished(t) /\ t.sampled /\ ~t.aborted
    /\ t.start = 100 /\ t.stop = 210 /\ StepOf(t) = 50
    /\ Len(t.visited) = 3

\* C6: when collect_historical_data has returned, a source whose creation
\* height was resolved and whose persisted series ended less than the
\* freshness threshold before end_block got no task, and the mapping returns
\* its persisted series unchanged.
C6_FreshSkipped ==
  HistReturned =>
    \A n \in DOMAIN creation_blocks :
      (csvAtStart[n] # <<>>
         /\ end_block - MaxHeight(csvAtStart[n]) < FreshnessThreshold) =>
        /\ \A t \in AllTasks : t.name # n
        /\ csv[n] = csvAtStart[n]
        /\ n \in DOMAIN results /\ results[n] = csvAtStart[n]

\* C7: a planned source without persisted data gets a window starting at its
\* creation height K when end_block >= K, and samples nothing when
\* end_block < K.
C7_FirstWindow ==
  mode = "hist" =>
    \A n \in Names :
      (plan[n].kind \in {"fresh", "nonew", "window"} /\ csvAtStart[n] = <<>>) =>
        /\ end_block >= CreationBlock[n] =>
             plan[n].kind = "window" /\ plan[n].start = CreationBlock[n]
        /\ end_block < CreationBlock[n] =>
             \/ plan[n].kind # "window"
             \/ BlockRange(plan[n].start, end_block + 1, 1) = <<>>

\* The task submitted for source n, if any.
TasksOf(n) == {t \in AllTasks : t.name = n}

FunctionTasks == {t \in ContractTasks : t.name \in ContractSet}

FailedAt(t, h) == {f \in FunctionsToTrack[t.name] : <<h, f>> \in t.o.ff}

\* C9: in the loop of collect_contract_data every visited height whose block
\* lookup succeeded has its row appended with height, timestamp and exactly
\* the columns of the functions whose call did not fail, and a failed
\* function call does not end the loop.
C9_FailedFunctionOmitted ==
  \A t \in FunctionTasks :
    (Finished(t) /\ t.sampled) =>
       /\ \A i \in 1..Len(t.visited) :
            t.visited[i] \notin t.o.bf =>
               /\ i <= Len(t.data)
               /\ t.data[i].h = t.visited[i]
               /\ t.data[i].ts = BlockTimestamp(t.visited[i])
               /\ t.data[i].cols =
                    FunctionsToTrack[t.name] \ FailedAt(t, t.visited[i])
       /\ t.o.bf = {} =>
            /\ ~t.aborted
            /\ t.visited = BlockRange(t.start, t.stop + 1, StepOf(t))

\* A finished pass in which one of several tracked functions failed at a
\* height that was not the last of the window.
C9_Witness ==
  \E t \in FunctionTasks :
    /\ Finished(t) /\ t.sampled /\ ~t.aborted
    /\ \E i \in 1..(Len(t.data) - 1) :
         /\ FailedAt(t, t.data[i].h) # {}
         /\ t.data[i].cols # {}
         /\ t.data[i].cols # FunctionsToTrack[t.name]
         /\ t.data[i + 1].cols = FunctionsToTrack[t.name]

\* C10: a finished sampling task was not aborted by a failed block lookup,
\* and every height of its window whose reads succeeded has its row in the
\* persisted series.
C10_BlockFailureSkipsOneRow ==
  \A t \in FunctionTasks \cup BalanceTaskSet :
    (Finished(t) /\ t.sampled) =>
       /\ ~t.aborted
       /\ \A h \in WindowHeights(t.start, t.stop, StepOf(t)) :
            (h \notin t.o.bf /\ <<h, "balanceOf">> \notin t.o.ff) =>
               h \in Heights(csv[t.name])

\* collect_all_data has returned.
AllReturned == pc = "idle" /\ mode = "all"

\* C11: when collect_historical_data or collect_all_data has returned, every
\* task it submitted has completed (returned or raised) and its result has
\* been taken by the result loop, the tasks after one that raised included.
C11_AllTasksAwaited ==
  (HistReturned \/ AllReturned) =>
     \A t \in AllTasks : Finished(t) /\ t.collected

\* A returned call of collect_historical_data in which a task raised and a
\* task submitted after it finished and had its series taken into results.
C11_Witness ==
  /\ HistReturned
  /\ \E i, j \in 1..Len(futures) :
       /\ i < j
       /\ futures[i].st = "raised" /\ futures[i].collected
       /\ futures[j].st = "done" /\ futures[j].collected
       /\ futures[j].df # <<>>
       /\ \E n \in DOMAIN results : results[n] = futures[j].df

\* The number of sources of the phase whose executor is open.
PhaseSources ==
  IF pc = "balcollect" THEN Len(BalanceNames)
  ELSE IF mode = "hist" THEN Len(Contracts)
  ELSE Len(Contracts) + Len(BalanceNames)

\* C12: at every moment the number of sampling tasks that are executing is at
\* most min(number of endpoints, number of sources of the phase).
C12_BoundedConcurrency ==
  NumRunning(futures) + NumRunning(balance_futures) <=
    Min(NumRpcUrls, PhaseSources)

\* As many tasks executing as there are endpoints while a further task of
\* the phase is still waiting for a worker.
C12_Witness ==
  /\ NumRunning(futures) = NumRpcUrls
  /\ \E i \in 1..Len(futures) : futures[i].st = "pending"

(***************************************************************************)
(* Properties of the warehouse publisher.                                  *)
(***************************************************************************)

\* The chunks visited for contract n and the requests sent for it, in order.
VisitedOf(n) == SelectSeq(visited, LAMBDA v : v.name = n)

RequestsOf(n) == SelectSeq(requests_log, LAMBDA q : q.name = n)

\* The number of chunk starts K, K+P, K+2P, ... that are < C.
NumChunks(K, C, P) == IF K >= C THEN 0 ELSE ((C - K - 1) \div P) + 1

\* The publisher call is over.
SyncOver == sync_pc \in {"done", "raised"}

\* A response that reports fewer rows written than were submitted.
ShortCount(q) ==
  /\ q.op = "insert"
  /\ q.resp.kind = "http" /\ q.resp.status = 200
  /\ q.resp.rows_written # NoKey
  /\ q.resp.rows_written < q.sent

\* C13: an insert_data whose response reports fewer rows written than were
\* submitted returns False.
C13_ShortCountFails ==
  \A i \in 1..Len(requests_log) :
    ShortCount(requests_log[i]) => ~requests_log[i].ok

\* A publish that returned failure: a request whose caller got False, or a
\* direct insert_data / upload_csv call that returned False.
PublishFailed ==
  \/ \E i \in 1..Len(requests_log) : ~requests_log[i].ok
  \/ sync_mode \in {"insert", "upload"} /\ sync_pc = "done" /\ ~call.ok

\* C14: once a publish (create_table, insert_data or upload_csv) has returned
\* failure, every source's persisted series is what it was before the
\* publisher call.
C14_FailedPublishKeepsSeries ==
  PublishFailed => \A n \in Names : csv[n] = csvAtStart[n]

\* A failed upload_csv of a non-empty persisted series, and a failed insert
\* or create with series on disk.
C14_Witness ==
  /\ sync_mode = "upload"
  /\ sync_pc = "done"
  /\ ~call.ok
  /\ call.df # <<>>
  /\ requests_log # <<>>
  /\ csv[call.name] # <<>>

\* The warehouse answered a create that the table already exists.
AlreadyExists(q) ==
  /\ q.op = "create"
  /\ q.resp.kind = "http" /\ q.resp.status = 200 /\ ~q.resp.success

\* The request after request i is the insert of the same chunk's rows.
InsertFollows(i) ==
  /\ i + 1 <= Len(requests_log)
  /\ requests_log[i + 1].op = "insert"
  /\ requests_log[i + 1].name = requests_log[i].name
  /\ requests_log[i + 1].chunk = requests_log[i].chunk
  /\ requests_log[i + 1].sent = requests_log[i].sent

\* C16 as stated: a create answered "already exists" is a success outcome of
\* create_table, and the insert of the chunk's rows follows.
C16_ExistsIsSuccess ==
  \A i \in 1..Len(requests_log) :
    AlreadyExists(requests_log[i]) => requests_log[i].ok /\ InsertFollows(i)

\* C16 amended: a create answered "already exists" makes create_table return
\* False, as an error does, and the insert of the chunk's rows follows all
\* the same.
C16_ExistsStillAppends ==
  \A i \in 1..Len(requests_log) :
    AlreadyExists(requests_log[i]) => ~requests_log[i].ok /\ InsertFollows(i)

\* A chunk whose create was answered "already exists" and whose rows were
\* then inserted.
C16_Witness ==
  \E i \in 1..(Len(requests_log) - 1) :
    /\ AlreadyExists(requests_log[i])
    /\ InsertFollows(i)
    /\ requests_log[i + 1].ok

\* The collector returned rows for every chunk of contract n visited so far.
AlwaysRows(n) ==
  \A i \in 1..Len(VisitedOf(n)) : VisitedOf(n)[i].outcome = "rows"

\* The chunks visited and the requests sent for every contract whose chunks
\* all got rows.
ChunkSchedule ==
  sync_mode = "historical" =>
    \A n \in DOMAIN creation_blocks :
      LET V == VisitedOf(n)
          R == RequestsOf(n)
          K == creation_blocks[n]
      IN AlwaysRows(n) =>
           /\ \A i \in 1..Len(V) :
                /\ V[i].start = K + (i - 1) * block_period
                /\ V[i].start < current_block
           /\ Len(R) = 2 * Len(V)
           /\ \A i \in 1..Len(V) :
                /\ R[2 * i - 1].op = "create" /\ R[2 * i - 1].chunk = V[i].start
                /\ R[2 * i].op = "insert" /\ R[2 * i].chunk = V[i].start
           /\ \A i \in 1..(Len(V) - 1) : R[2 * i].ok
           /\ status[n] = "stopped" <=> (Len(V) > 0 /\ ~R[2 * Len(V)].ok)
           /\ status[n] = "completed" =>
                /\ Len(V) = NumChunks(K, current_block, block_period)
                /\ (K = 100 /\ current_block = 1000 /\ block_period = 100) =>
                      Len(V) = 9 /\ Len(R) = 18

SyncTerminates == (sync_mode = "historical") ~> SyncOver

NoRequestFor(n, s) ==
  \A j \in 1..Len(requests_log) :
    ~(requests_log[j].name = n /\ requests_log[j].chunk = s)

\* After the pass over visited[i] the loop of its contract went on to the
\* chunk one block_period later: that chunk is the next one visited, or the
\* loop stands at its while test with that start, or the start has reached
\* current_block and the contract is completed.
Advanced(i) ==
  LET n   == visited[i].name
      nxt == visited[i].start + block_period
  IN \/ /\ i < Len(visited)
        /\ visited[i + 1].name = n /\ visited[i + 1].start = nxt
        /\ nxt < current_block
     \/ /\ i = Len(visited)
        /\ sync_pc = "chunk" /\ chunk_start = nxt /\ SyncItems[sync_i] = n
     \/ /\ nxt >= current_block
        /\ status[n] = "completed"

\* An empty frame leads to no request and to the next chunk.
EmptyChunkSkipped ==
  \A i \in 1..Len(visited) :
    visited[i].outcome = "empty" =>
      NoRequestFor(visited[i].name, visited[i].start) /\ Advanced(i)

EmptyChunkTerminates ==
  (\E i \in 1..Len(visited) : visited[i].outcome = "empty") ~> SyncOver

\* C18: for a chunk whose frame is empty no request (create or insert) is
\* sent, the loop goes on to the next chunk, and the call terminates once
\* the chunk starts have reached current_block.
C18_EmptyChunkNoRequest == []EmptyChunkSkipped /\ EmptyChunkTerminates

\* A returned call in which every chunk of every contract got an empty
\* frame: all contracts completed and no request was sent.
C18_Witness ==
  /\ sync_pc = "done"
  /\ collector = "stub_empty"
  /\ current_block = 1000 /\ block_period = 100
  /\ requests_log = <<>>
  /\ Len(visited) >= 9
  /\ \A n \in DOMAIN creation_blocks : status[n] = "completed"

\* The warehouse rejected the insert of request q with a non-200 response.
InsertRejected(q) ==
  q.op = "insert" /\ q.resp.kind = "http" /\ q.resp.status # 200

\* No chunk of contract n after the one starting at s was visited.
StoppedAt(n, s) ==
  \A j \in 1..Len(visited) : visited[j].name = n => visited[j].start <= s

\* A rejected insert or a raising step ends the loop of its contract only.
FailureIsolated ==
  sync_mode = "historical" =>
    /\ visited # <<>> => sync_pc # "raised"
    /\ \A i \in 1..Len(requests_log) :
         InsertRejected(requests_log[i]) =>
           /\ ~requests_log[i].ok
           /\ i = Len(requests_log) \/ requests_log[i + 1].name # requests_log[i].name
           /\ StoppedAt(requests_log[i].name, requests_log[i].chunk)
    /\ \A j \in 1..Len(visited) :
         visited[j].outcome = "raised" =>
           /\ NoRequestFor(visited[j].name, visited[j].start)
           /\ StoppedAt(visited[j].name, visited[j].start)
    /\ sync_pc = "done" =>
         \A n \in DOMAIN creation_blocks :
           /\ status[n] \in {"completed", "stopped", "raised"}
           /\ creation_blocks[n] < current_block => VisitedOf(n) # <<>>

RunsToCompletion ==
  (\E n \in Names : status[n] \in {"stopped", "raised"}) ~> (sync_pc = "done")

\* C19: a contract whose insert the warehouse rejects with a non-200
\* response, or one of whose steps raises, does not make
\* sync_historical_data raise: no further chunk of that contract is visited,
\* every remaining contract is processed and the call runs to completion.
C19_ContractFailureIsolated == []FailureIsolated /\ RunsToCompletion

\* A returned call in which the insert of the first contract was rejected
\* with a non-200 response before its last chunk and a later contract
\* completed all its chunks.
C19_Witness ==
  /\ sync_pc = "done"
  /\ sync_mode = "historical"
  /\ Len(SyncItems) >= 2
  /\ \E i \in 1..Len(requests_log) :
       /\ InsertRejected(requests_log[i])
       /\ requests_log[i].name = SyncItems[1]
       /\ requests_log[i].chunk + block_period < current_block
       /\ status[SyncItems[1]] = "stopped"
  /\ \E k \in 2..Len(SyncItems) :
       /\ status[SyncItems[k]] = "completed"
       /\ Len(RequestsOf(SyncItems[k])) >= 4

\* C20: insert_data called with an empty series returns False and sends no
\* request.
C20_EmptyInsertRefused ==
  (sync_mode = "insert" /\ sync_pc = "done" /\ call.df = <<>>) =>
     ~call.ok /\ requests_log = <<>>

\* insert_data has been called with an empty series.
C20_Witness ==
  sync_mode = "insert" /\ sync_pc = "done" /\ call.df = <<>> /\ ~call.ok

(***************************************************************************)
(* Properties of persistence, concurrency and the returned mapping.        *)
(***************************************************************************)

\* C26: when collect_historical_data has returned, the series of every
\* function-tracking task that returned rows is in the mapping under the
\* task's own source name, and every function-tracking name of the mapping
\* maps to the series of that source.
C26_ResultsUnderOwnName ==
  HistReturned =>
    /\ \A t \in FunctionTasks :
         (t.st = "done" /\ t.df # <<>>) =>
            t.name \in DOMAIN results /\ results[t.name] = t.df
    /\ \A n \in ContractSet \cap DOMAIN results : results[n] = csv[n]

\* C22: when the sampling of a task has failed part-way through its window,
\* every row sampled before the failure is in the persisted series of the
\* source, so that a later plan resumes after it.
C22_PartialProgressPersisted ==
  \A t \in AllTasks :
    (Finished(t) /\ t.sampled /\ t.aborted) =>
       \A i \in 1..Len(t.data) :
         /\ t.data[i].h \in Heights(csv[t.name])
         /\ MaxHeight(csv[t.name]) >= t.data[i].h

\* C28: no two sampling tasks that are executing at the same time issue
\* their reads through the same endpoint handle object.
C28_OwnEndpointHandle ==
  /\ \A i, j \in 1..Len(futures) :
       (/\ i < j
        /\ futures[i].st = "running" /\ futures[i].name \in ContractSet
        /\ futures[j].st = "running" /\ futures[j].name \in ContractSet) =>
          ContractHandle(i) # ContractHandle(j)
  /\ \A i, j \in 1..Len(balance_futures) :
       (/\ i < j
        /\ balance_futures[i].st = "running"
        /\ balance_futures[j].st = "running") =>
          BalanceHandle(i) # BalanceHandle(j)

\* The positions of the tasks that are executing for source n: a task
\* reads and writes the CSV of its own source only, at the end of its run.
WritersOf(n) ==
  {<<"contract", i>> : i \in {k \in 1..Len(futures) :
       futures[k].st = "running" /\ futures[k].name = n}} \cup
  {<<"balance", i>> : i \in {k \in 1..Len(balance_futures) :
       balance_futures[k].st = "running" /\ balance_futures[k].name = n}}

OneTaskPerKey == \A n \in Names : Cardinality(WritersOf(n)) <= 1

\* The step in which the calling thread of collect_all_data writes the
\* frame of task i to the source's CSV.
CallerWrites(i) ==
  /\ mode = "all" /\ pc = "allcollect"
  /\ Len(futures') = Len(futures)
  /\ ~futures[i].collected /\ futures'[i].collected
  /\ ~futures[i].none

SecondWriteAfterTask ==
  \A i \in 1..Len(futures) :
    CallerWrites(i) => WritersOf(futures[i].name) = {}

\* C27: at every moment at most one executing task has a given source's CSV
\* as its target, and when the calling thread of collect_all_data writes a
\* source's CSV no task of that source is executing.
C27_SingleWriter == []OneTaskPerKey /\ [][SecondWriteAfterTask]_vars

\* collect_all_data has written the frame of a finished task to its CSV while
\* the task of another source is still executing.
C27_Witness ==
  /\ mode = "all"
  /\ \E i, j \in 1..Len(futures) :
       /\ futures[i].collected /\ ~futures[i].none
       /\ futures[i].df # <<>> /\ csv[futures[i].name] = futures[i].df
       /\ futures[j].st = "running"

\* In a call of collect_historical_data every source's creation height has
\* been looked up at most once, no task is left to look it up again, and the
\* windows are planned from the heights resolved at the start of the call.
ResolvedOnce ==
  mode = "hist" =>
    /\ \A n \in Names : lookups[n] <= 1
    /\ \A t \in AllTasks : t.start # NoStart /\ t.start = plan[t.name].start
    /\ \A n \in Names :
         (plan[n].kind = "window" /\ csvAtStart[n] = <<>>) =>
            n \in DOMAIN creation_blocks /\ plan[n].start = creation_blocks[n]

\* While the call is in progress no height is looked up and creation_blocks
\* does not change.
CreationFixed ==
  (mode = "hist" /\ mode' = "hist" /\ pc # "idle") =>
     creation_blocks' = creation_blocks /\ lookups' = lookups

\* C29: within one call of collect_historical_data the creation height of
\* each source is resolved at most once, before any sampling task is
\* submitted or started, and the resolved value is the one the planner and
\* the tasks use until the call returns.
C29_CreationResolvedOnce == []ResolvedOnce /\ [][CreationFixed]_vars

\* A returned call in which a task sampled a window that starts at the
\* creation height resolved at the start of the call.
C29_Witness ==
  /\ HistReturned
  /\ \E t \in FunctionTasks :
       /\ t.sampled /\ t.visited # <<>>
       /\ t.start = creation_blocks[t.name]
       /\ lookups[t.name] = 1
  /\ \E t \in BalanceTaskSet : t.sampled /\ lookups[t.name] = 1

\* The series a task that sampled its whole window has to leave on disk:
\* its rows merged into the series persisted before.
CompleteSeries(t) ==
  IF csvAtStart[t.name] # <<>> THEN MergeFrames(csvAtStart[t.name], t.data)
  ELSE t.data

\* C23: at every point of a call the persisted series of every source is
\* either the series it had when the call started or the complete merged
\* series of the source's task, whatever read or write failed.
C23_AtomicSave ==
  \A n \in Names :
    \/ csv[n] = csvAtStart[n]
    \/ \E t \in TasksOf(n) :
         Finished(t) /\ t.sampled /\ ~t.aborted /\ csv[n] = CompleteSeries(t)

\* The rows the warehouse has appended to the table of source n: for every
\* insert request answered 200, as many of its rows as the answer reports
\* written.
RECURSIVE AppendedRows(_, _)
AppendedRows(log, n) ==
  IF log = <<>> THEN <<>>
  ELSE LET q    == log[Len(log)]
           init == AppendedRows(SubSeq(log, 1, Len(log) - 1), n)
       IN IF /\ q.name = n /\ q.op = "insert"
             /\ q.resp.kind = "http" /\ q.resp.status = 200
             /\ q.resp.rows_written # NoKey
          THEN init \o SubSeq(q.rows, 1, q.resp.rows_written)
          ELSE init

WarehouseRows(n) == AppendedRows(requests_log, n)

\* Every publish made for source n succeeded: no request of n got a failure
\* back, and every insert wrote all the rows sent.
EveryPublishSucceeded(n) ==
  \A i \in 1..Len(requests_log) :
    (requests_log[i].name = n /\ requests_log[i].op = "insert") =>
       /\ requests_log[i].ok
       /\ requests_log[i].resp.rows_written = requests_log[i].sent

\* C21: when sync_historical_data has returned, for every source whose loop
\* was completed with every publish succeeding, the rows of the source's
\* warehouse table are the rows of its persisted local series, each height
\* once.
C21_WarehouseEqualsLocal ==
  (sync_mode = "historical" /\ sync_pc = "done") =>
     \A n \in DOMAIN creation_blocks :
       (status[n] = "completed" /\ EveryPublishSucceeded(n)) =>
          WarehouseRows(n) = csv[n]

(***************************************************************************)
(* The save step of a sampling task, taken on its own: the batch of a task *)
(* is merged into the series the file holds (collector.py:338-349 and      *)
(* 712-721), and the same batch is merged once more.                       *)
(***************************************************************************)

\* The heights the series and batches of this part range over.
MergeHeights == {100, 150, 200}

MergePeriod == 50

\* The rows a task of contract "A" can collect over the window [lo, hi]:
\* the calls of f2 fail at the heights in bad.
BatchOf(lo, hi, bad) ==
  LET hs == BlockRange(lo, hi + 1, MergePeriod)
  IN [i \in 1..Len(hs) |-> ContractRow("A", hs[i], {<<h, "f2">> : h \in bad})]

\* The batches a task can hand to the save step: never empty, ascending,
\* one row per height.
Batches ==
  {BatchOf(lo, hi, bad) :
     lo \in MergeHeights, hi \in MergeHeights, bad \in SUBSET MergeHeights}
  \ {<<>>}

\* Lines 340-349 and 714-721: read the file if it exists, concatenate, drop
\* the duplicate heights, sort, and write.
SaveToCsv(existing, data) ==
  IF existing # <<>> THEN MergeFrames(existing, data) ELSE data

MergeInit ==
  /\ CollectorIdle
  /\ SyncIdle
  /\ GateIdle
  /\ ScriptIdle
  /\ merge_pc = "start"
  /\ merge_existing \in Batches \cup {<<>>}
  /\ merge_batch \in Batches
  /\ merge_csv = merge_existing

\* The task saves its batch.
MergeSave ==
  /\ merge_pc = "start"
  /\ merge_csv' = SaveToCsv(merge_csv, merge_batch)
  /\ merge_pc' = "merged"
  /\ UNCHANGED <<merge_existing, merge_batch>>
  /\ UNCHANGED <<csv, creation_blocks, lookupFailures, collectorVars,
                 syncVars, gateVars, scriptVars>>

\* The same batch is saved once more.
MergeSaveAgain ==
  /\ merge_pc = "merged"
  /\ merge_csv' = SaveToCsv(merge_csv, merge_batch)
  /\ merge_pc' = "remerged"
  /\ UNCHANGED <<merge_existing, merge_batch>>
  /\ UNCHANGED <<csv, creation_blocks, lookupFailures, collectorVars,
                 syncVars, gateVars, scriptVars>>

MergeNext == MergeSave \/ MergeSaveAgain

MergeSpec == MergeInit /\ [][MergeNext]_vars

\* C24: merging a non-empty series (ascending, one row per height) with
\* itself leaves it as it was, and saving the same batch a second time does
\* not change the persisted series.
C24_MergeIdempotent ==
  /\ (merge_pc # "start" /\ merge_batch = merge_existing) =>
        merge_csv = merge_existing
  /\ merge_pc = "remerged" =>
        merge_csv = SaveToCsv(merge_existing, merge_batch)

\* A three-row series has been merged with itself, twice.
C24_Witness ==
  /\ merge_pc = "remerged"
  /\ merge_batch = merge_existing
  /\ Len(merge_existing) = 3
  /\ merge_csv = merge_existing

(***************************************************************************)
(* The rate gate of one sampling task (collector.py:276-298 and 646-676):  *)
(* the loop over block_range with its local last_call_time, against a      *)
(* clock that advances between any two statements. Time is counted in      *)
(* whole ticks.                                                            *)
(***************************************************************************)

\* What time.time() returns when the task starts: the time since 1970, which
\* lies beyond every retrieval period.
Epoch == 10

\* Values of BLOCK_RETRIEVAL_PERIOD.
Periods == {0, 2, 3}

\* len(block_range)
GateHeights == 3

\* Ticks of the clock outside time.sleep in one task.
MaxTicks == 4

\* By how much time.sleep may overshoot the time asked for.
MaxOversleep == 1

\* Line 291 (666): the test of the gate.
Delayed(ct, lct, period) == ct - lct < period

\* Variant of SleepFor: sleep for the time already elapsed.
SleepFor_Elapsed(ct, lct, period) == ct - lct

\* Line 293 (669): the argument of time.sleep.
SleepFor(ct, lct, period) == period - (ct - lct)

GateInit ==
  /\ CollectorIdle
  /\ SyncIdle
  /\ MergeIdle
  /\ ScriptIdle
  /\ now = Epoch
  /\ gate_pc = "check"
  /\ block_retrieval_period \in Periods
  /\ last_call_time = 0
  /\ current_time = 0
  /\ gate_i = 1
  /\ permitted = <<>>
  /\ slept = <<>>
  /\ ticks = 0

\* Time passes while the task is between two statements or in a read.
Tick ==
  /\ gate_pc \in {"check", "sleep", "stamp", "read"}
  /\ ticks < MaxTicks
  /\ now' = now + 1
  /\ ticks' = ticks + 1
  /\ UNCHANGED <<gate_pc, block_retrieval_period, last_call_time,
                 current_time, gate_i, permitted, slept>>
  /\ UNCHANGED <<csv, creation_blocks, lookupFailures, collectorVars,
                 syncVars, mergeVars, scriptVars>>

\* Lines 290-291: current_time = time.time() and the test of the gate.
ReadClock ==
  /\ gate_pc = "check"
  /\ current_time' = now
  /\ LET d == Delayed(now, last_call_time, block_retrieval_period)
     IN /\ gate_pc' = IF d THEN "sleep" ELSE "stamp"
        /\ slept' = Append(slept, d)
  /\ UNCHANGED <<now, block_retrieval_period, last_call_time, gate_i,
                 permitted, ticks>>
  /\ UNCHANGED <<csv, creation_blocks, lookupFailures, collectorVars,
                 syncVars, mergeVars, scriptVars>>

\* Lines 292-294: time.sleep returns no earlier than asked.
Sleep ==
  /\ gate_pc = "sleep"
  /\ \E over \in 0..MaxOversleep :
       now' = now + SleepFor(current_time, last_call_time,
                             block_retrieval_period) + over
  /\ gate_pc' = "stamp"
  /\ UNCHANGED <<block_retrieval_period, last_call_time, current_time,
                 gate_i, permitted, slept, ticks>>
  /\ UNCHANGED <<csv, creation_blocks, lookupFailures, collectorVars,
                 syncVars, mergeVars, scriptVars>>

\* Line 296: last_call_time = time.time(); the read of the height is
\* permitted from here.
Stamp ==
  /\ gate_pc = "stamp"
  /\ last_call_time' = now
  /\ permitted' = Append(permitted, now)
  /\ gate_pc' = "read"
  /\ UNCHANGED <<now, block_retrieval_period, current_time, gate_i, slept,
                 ticks>>
  /\ UNCHANGED <<csv, creation_blocks, lookupFailures, collectorVars,
                 syncVars, mergeVars, scriptVars>>

\* Lines 298-333 (673-700): get_block and the calls at the height. A raise
\* of get_block ends the loop of a contract task; a balance task goes on.
GetBlock ==
  /\ gate_pc = "read"
  /\ \E ends \in BOOLEAN :
       /\ gate_pc' = IF ends \/ gate_i = GateHeights THEN "done" ELSE "check"
       /\ gate_i' = gate_i + 1
  /\ UNCHANGED <<now, block_retrieval_period, last_call_time, current_time,
                 permitted, slept, ticks>>
  /\ UNCHANGED <<csv, creation_blocks, lookupFailures, collectorVars,
                 syncVars, mergeVars, scriptVars>>

GateNext == Tick \/ ReadClock \/ Sleep \/ Stamp \/ GetBlock

GateSpec == GateInit /\ [][GateNext]_vars

\* C25: within one task the gate never sleeps before the first height, and
\* the reads of two consecutive heights are permitted at least
\* block_retrieval_period apart.
C25_RateGate ==
  /\ slept # <<>> => ~slept[1]
  /\ \A i \in 1..(Len(permitted) - 1) :
       permitted[i + 1] - permitted[i] >= block_retrieval_period

\* Three heights were read with a period of 3 ticks; the gate slept before
\* the second, which was permitted exactly one period after the first.
C25_Witness ==
  /\ gate_pc = "done"
  /\ Len(permitted) = 3
  /\ block_retrieval_period = 3
  /\ ~slept[1]
  /\ slept[2]
  /\ permitted[2] - permitted[1] = 3

(***************************************************************************)
(* scripts/collect_and_upload.py: run_collection_and_upload, which runs    *)
(* the collection command and then the upload commands of each asset.      *)
(***************************************************************************)

\* Line 22.
ASSETS == <<"ETH", "USD", "BNB">>

AssetSet == {ASSETS[i] : i \in 1..Len(ASSETS)}

\* Lines 158-250: the "file" entries of CONTRACTS, the first two per asset.
CONTRACTS ==
  [a \in AssetSet |->
     IF a = "ETH" THEN <<"lp_eth_pool.csv", "slp_eth.csv">>
     ELSE IF a = "USD" THEN <<"lp_usd_pool.csv", "slp_usd.csv">>
     ELSE <<"lp_bnb_pool.csv", "slp_bnb.csv">>]

FilesOf(a) == {CONTRACTS[a][i] : i \in 1..Len(CONTRACTS[a])}

AllFiles == UNION {FilesOf(a) : a \in AssetSet}

\* Variant of Accumulate: the outcome of the last command is the result.
Accumulate_Last(success, cmd_success) == cmd_success

\* Line 370: success = success and cmd_success
Accumulate(success, cmd_success) == success /\ cmd_success

\* Lines 345-372: the loop of upload_data_for_asset over the contracts cs of
\* asset a, with the files that exist and the outcome run_command has for
\* each file. Gives the value returned and the commands run.
RECURSIVE UploadLoop(_, _, _, _)
UploadLoop(a, cs, files, outcome) ==
  IF cs = <<>> THEN [success |-> TRUE, cmds |-> <<>>]
  ELSE LET init == UploadLoop(a, SubSeq(cs, 1, Len(cs) - 1), files, outcome)
           file == cs[Len(cs)]
       IN IF file \notin files THEN init
          ELSE [success |-> Accumulate(init.success, outcome[file]),
                cmds    |-> Append(init.cmds, [asset |-> a, file |-> file,
                                                ok |-> outcome[file]])]

\* A value of the boolean a function returned.
Returned(b) == IF b THEN "ok" ELSE "failed"

ScriptInit ==
  /\ CollectorIdle
  /\ SyncIdle
  /\ MergeIdle
  /\ GateIdle
  /\ script_pc = "collect"
  /\ asset_i = 1
  /\ data_files \in SUBSET AllFiles
  /\ collect_success = [a \in AssetSet |-> "none"]
  /\ upload_success = [a \in AssetSet |-> "none"]
  /\ uploads = <<>>

\* Lines 390-392 and 404-407, with collect_data_for_asset (303-328): the
\* collection command of the asset runs, may leave files of the asset under
\* data/, and succeeds or not (run_command turns every exception into
\* False).
CollectDataForAsset ==
  /\ script_pc = "collect"
  /\ LET a == ASSETS[asset_i]
     IN \E success \in BOOLEAN, created \in SUBSET FilesOf(a) :
          /\ collect_success' = [collect_success EXCEPT ![a] = Returned(success)]
          /\ data_files' = data_files \cup created
          /\ script_pc' = IF success THEN "upload" ELSE "delay"
  /\ UNCHANGED <<asset_i, upload_success, uploads>>
  /\ UNCHANGED <<csv, creation_blocks, lookupFailures, collectorVars,
                 syncVars, mergeVars, gateVars>>

\* Lines 394-403, with upload_data_for_asset (331-372).
UploadDataForAsset ==
  /\ script_pc = "upload"
  /\ LET a == ASSETS[asset_i]
     IN \E outcome \in [FilesOf(a) -> BOOLEAN] :
          LET r == UploadLoop(a, CONTRACTS[a], data_files, outcome)
          IN /\ upload_success' = [upload_success EXCEPT ![a] = Returned(r.success)]
             /\ uploads' = uploads \o r.cmds
  /\ script_pc' = "delay"
  /\ UNCHANGED <<asset_i, data_files, collect_success>>
  /\ UNCHANGED <<csv, creation_blocks, lookupFailures, collectorVars,
                 syncVars, mergeVars, gateVars>>

\* Lines 409-421: the pause between two assets, the next turn of the loop,
\* or the end of the run after the last asset.
NextAsset ==
  /\ script_pc = "delay"
  /\ IF asset_i = Len(ASSETS)
     THEN script_pc' = "done" /\ UNCHANGED asset_i
     ELSE script_pc' = "collect" /\ asset_i' = asset_i + 1
  /\ UNCHANGED <<data_files, collect_success, upload_success, uploads>>
  /\ UNCHANGED <<csv, creation_blocks, lookupFailures, collectorVars,
                 syncVars, mergeVars, gateVars>>

ScriptNext == CollectDataForAsset \/ UploadDataForAsset \/ NextAsset

\* The script is one thread of control and every command it runs ends, so
\* the run goes on as long as something is left to do.
ScriptSpec == ScriptInit /\ [][ScriptNext]_vars /\ WF_vars(ScriptNext)

\* The upload commands run for asset a, in order.
UploadsOf(a) == SelectSeq(uploads, LAMBDA u : u.asset = a)

\* The files of asset a that exist, in the order of CONTRACTS.
ExistingOf(a) == SelectSeq(CONTRACTS[a], LAMBDA f : f \in data_files)

\* The upload step of a is started only after the collection of a succeeded.
UploadAfterCollect ==
  \A a \in AssetSet :
    (\/ upload_success[a] # "none"
     \/ UploadsOf(a) # <<>>
     \/ (script_pc = "upload" /\ ASSETS[asset_i] = a))
    => collect_success[a] = "ok"

\* What upload_data_for_asset did and returned for a: one command per
\* existing file, in order, and success exactly if every command succeeded.
UploadComplete ==
  \A a \in AssetSet :
    upload_success[a] # "none" =>
      LET u == UploadsOf(a)
      IN /\ [i \in 1..Len(u) |-> u[i].file] = ExistingOf(a)
         /\ upload_success[a] = "ok" <=> \A i \in 1..Len(u) : u[i].ok

\* Asset a went through the loop body.
Processed(a) ==
  /\ collect_success[a] # "none"
  /\ collect_success[a] = "ok" => upload_success[a] # "none"

\* The collection or the upload of the asset at position k has failed.
AssetFailed(k) ==
  \/ collect_success[ASSETS[k]] = "failed"
  \/ upload_success[ASSETS[k]] = "failed"

\* C30: the upload step of an asset starts only after its collection
\* succeeded; upload_data_for_asset attempts every existing file, skips the
\* missing ones and reports success exactly if every attempted upload
\* succeeded; the run ends only with every asset processed, and after a
\* failed collection or upload of an asset the following asset is processed.
C30_ScriptIsolation ==
  /\ [](UploadAfterCollect /\ UploadComplete)
  /\ [](script_pc = "done" => \A a \in AssetSet : Processed(a))
  /\ \A k \in 1..(Len(ASSETS) - 1) :
       AssetFailed(k) ~> Processed(ASSETS[k + 1])

\* The run has ended: the collection of ETH failed, an upload of USD
\* failed, and BNB, one of whose files is missing, was uploaded with
\* success by a single command.
C30_Witness ==
  /\ script_pc = "done"
  /\ collect_success["ETH"] = "failed"
  /\ upload_success["USD"] = "failed"
  /\ upload_success["BNB"] = "ok"
  /\ Len(ExistingOf("BNB")) = 1
  /\ Len(UploadsOf("BNB")) = 1

====
